---- MODULE Spec2Model ----
(***************************************************************************)
(* Token accounting of chrisdinn/tokens.                                   *)
(*                                                                         *)
(* Two implementations live in the repository: src/counter.go and a second *)
(* counter (src/unnamed/part_002).  Definitions that model the second one  *)
(* carry the suffix _p2; definitions without suffix model src/counter.go   *)
(* (the schema renderer and formatArguments are the same text in both).    *)
(*                                                                         *)
(* Texts are TLA+ strings.  Go iterates maps in an unspecified order, so   *)
(* every renderer that ranges over a map is modelled as the SET of texts   *)
(* it can return, one per iteration order; counters built on them are sets *)
(* of integers, and the actions pick one element.                          *)
(***************************************************************************)
EXTENDS Integers, Sequences, FiniteSets, TLC

(***************************************************************************)
(* Bounds of the model.                                                    *)
(***************************************************************************)
MaxMsgs == 3
MaxCalls == 2
MaxToolCalls == 2

(***************************************************************************)
(* Text helpers.                                                           *)
(***************************************************************************)
Letters ==
  {"a","b","c","d","e","f","g","h","i","j","k","l","m","n","o","p","q","r",
   "s","t","u","v","w","x","y","z","A","B","C","D","E","F","G","H","I","J",
   "K","L","M","N","O","P","Q","R","S","T","U","V","W","X","Y","Z","_"}

Digits == {"0","1","2","3","4","5","6","7","8","9"}

CharAt(s, i) == SubSeq(s, i, i)

CharClass(c) == IF c \in Letters THEN "letter"
                ELSE IF c \in Digits THEN "digit" ELSE "other"

\* strings.Join(lines, sep)
RECURSIVE Join(_, _)
Join(lines, sep) ==
  IF Len(lines) = 0 THEN ""
  ELSE IF Len(lines) = 1 THEN lines[1]
  ELSE lines[1] \o sep \o Join(Tail(lines), sep)

\* strings.Repeat(" ", n)
RECURSIVE Spaces(_)
Spaces(n) == IF n <= 0 THEN "" ELSE " " \o Spaces(n - 1)

DigitText(d) ==
  CASE d = 0 -> "0" [] d = 1 -> "1" [] d = 2 -> "2" [] d = 3 -> "3"
    [] d = 4 -> "4" [] d = 5 -> "5" [] d = 6 -> "6" [] d = 7 -> "7"
    [] d = 8 -> "8" [] d = 9 -> "9"

DigitValue(c) ==
  CASE c = "0" -> 0 [] c = "1" -> 1 [] c = "2" -> 2 [] c = "3" -> 3
    [] c = "4" -> 4 [] c = "5" -> 5 [] c = "6" -> 6 [] c = "7" -> 7
    [] c = "8" -> 8 [] c = "9" -> 9

\* fmt.Sprintf("%v", float64(n)) for an integral n with |n| < 10^6 (the
\* parsed numbers of the model stay below the exponent form of %v).
RECURSIVE NatText(_)
NatText(n) == IF n < 10 THEN DigitText(n)
              ELSE NatText(n \div 10) \o DigitText(n % 10)

NumText(n) == IF n < 0 THEN "-" \o NatText(0 - n) ELSE NatText(n)

\* strconv.Quote, the %q verb: the text in double quotes with ", \ and the
\* newline escaped (the texts of the model hold no other special character).
RECURSIVE QuoteBody(_)
QuoteBody(s) ==
  IF Len(s) = 0 THEN ""
  ELSE LET c == Head(s)
           e == IF c = "\"" THEN "\\\""
                ELSE IF c = "\\" THEN "\\\\"
                ELSE IF c = "\n" THEN "\\n" ELSE c
       IN e \o QuoteBody(Tail(s))

Quote(s) == "\"" \o QuoteBody(s) \o "\""

(***************************************************************************)
(* Counter.CountTokens: the length of the tokenizer's encoding of the      *)
(* text.  The tokenizer is the external tiktoken library; it is modelled   *)
(* by a deterministic pre-tokenizer: a maximal run of letters is one       *)
(* token, a maximal run of digits is one token, every other character is   *)
(* one token.  The empty text has no token, and the count of a             *)
(* concatenation is not the sum of the counts.                             *)
(***************************************************************************)
\* the positions of the text at which a token starts
TokenStarts(txt) ==
  {i \in 1..Len(txt) :
     LET cl == CharClass(CharAt(txt, i))
     IN \/ cl = "other"
        \/ i = 1
        \/ cl # CharClass(CharAt(txt, i - 1))}

CountTokens(txt) == Cardinality(TokenStarts(txt))

(***************************************************************************)
(* JSON values, as encoding/json decodes them into interface{}:            *)
(* string, float64, bool, nil, []interface{} and map[string]interface{}.   *)
(* A map is a function from its keys to values; it has no order.           *)
(***************************************************************************)
JStr(s) == [t |-> "string", s |-> s]
JNum(n) == [t |-> "number", n |-> n]
JBool(b) == [t |-> "bool", b |-> b]
JNull == [t |-> "null"]
JArr(a) == [t |-> "array", a |-> a]
JObj(m) == [t |-> "object", m |-> m]

EmptyMap == [k \in {} |-> JNull]

\* m[key] = v on a Go map: insert or overwrite.
MapPut(m, key, v) ==
  [k \in (DOMAIN m) \cup {key} |-> IF k = key THEN v ELSE m[k]]

\* v, ok := m[key]
HasKey(m, key) == key \in DOMAIN m

IsStr(m, key) == HasKey(m, key) /\ m[key].t = "string"
IsArr(m, key) == HasKey(m, key) /\ m[key].t = "array"
IsMap(m, key) == HasKey(m, key) /\ m[key].t = "object"

(***************************************************************************)
(* encoding/json: a recursive-descent decoder for the JSON the model's     *)
(* texts use (objects, arrays, strings with the escapes \" \\ \n, integer  *)
(* numbers, true, false, null, blanks).  A parse step returns              *)
(* [ok, v, i]: whether a value was read, the value, the next position.     *)
(***************************************************************************)
Blank == {" ", "\n", "\t", "\r"}

RECURSIVE SkipBlank(_, _)
SkipBlank(s, i) ==
  IF i <= Len(s) /\ CharAt(s, i) \in Blank THEN SkipBlank(s, i + 1) ELSE i

Fail == [ok |-> FALSE, v |-> JNull, i |-> 0]

HasPrefixAt(s, i, w) == i + Len(w) - 1 <= Len(s) /\ SubSeq(s, i, i + Len(w) - 1) = w

\* the body of a string literal from position i (after the opening quote)
RECURSIVE ParseStringBody(_, _, _)
ParseStringBody(s, i, acc) ==
  IF i > Len(s) THEN Fail
  ELSE LET c == CharAt(s, i)
       IN IF c = "\"" THEN [ok |-> TRUE, v |-> JStr(acc), i |-> i + 1]
          ELSE IF c = "\\"
            THEN IF i + 1 > Len(s) THEN Fail
                 ELSE LET d == CharAt(s, i + 1)
                      IN IF d = "\"" THEN ParseStringBody(s, i + 2, acc \o "\"")
                         ELSE IF d = "\\" THEN ParseStringBody(s, i + 2, acc \o "\\")
                         ELSE IF d = "n" THEN ParseStringBody(s, i + 2, acc \o "\n")
                         ELSE Fail
          ELSE IF c \in {"\n", "\t", "\r"} THEN Fail
          ELSE ParseStringBody(s, i + 1, acc \o c)

RECURSIVE ParseDigits(_, _, _)
ParseDigits(s, i, acc) ==
  IF i <= Len(s) /\ CharAt(s, i) \in Digits
    THEN ParseDigits(s, i + 1, 10 * acc + DigitValue(CharAt(s, i)))
    ELSE [ok |-> TRUE, v |-> JNum(acc), i |-> i]

\* a number: an optional minus, then 0 or a digit run without leading zero
ParseNumber(s, i) ==
  LET neg == i <= Len(s) /\ CharAt(s, i) = "-"
      j == IF neg THEN i + 1 ELSE i
  IN IF j > Len(s) \/ CharAt(s, j) \notin Digits THEN Fail
     ELSE LET r == IF CharAt(s, j) = "0"
                     THEN [ok |-> TRUE, v |-> JNum(0), i |-> j + 1]
                     ELSE ParseDigits(s, j, 0)
          IN IF neg THEN [r EXCEPT !.v = JNum(0 - r.v.n)] ELSE r

RECURSIVE ParseValue(_, _)
RECURSIVE ParseElements(_, _, _)
RECURSIVE ParseMembers(_, _, _)

ParseValue(s, i0) ==
  LET i == SkipBlank(s, i0)
  IN IF i > Len(s) THEN Fail
     ELSE LET c == CharAt(s, i)
          IN IF c = "{" THEN
               LET j == SkipBlank(s, i + 1)
               IN IF j <= Len(s) /\ CharAt(s, j) = "}"
                    THEN [ok |-> TRUE, v |-> JObj(EmptyMap), i |-> j + 1]
                    ELSE ParseMembers(s, j, EmptyMap)
             ELSE IF c = "[" THEN
               LET j == SkipBlank(s, i + 1)
               IN IF j <= Len(s) /\ CharAt(s, j) = "]"
                    THEN [ok |-> TRUE, v |-> JArr(<<>>), i |-> j + 1]
                    ELSE ParseElements(s, j, <<>>)
             ELSE IF c = "\"" THEN ParseStringBody(s, i + 1, "")
             ELSE IF HasPrefixAt(s, i, "true")
               THEN [ok |-> TRUE, v |-> JBool(TRUE), i |-> i + 4]
             ELSE IF HasPrefixAt(s, i, "false")
               THEN [ok |-> TRUE, v |-> JBool(FALSE), i |-> i + 5]
             ELSE IF HasPrefixAt(s, i, "null")
               THEN [ok |-> TRUE, v |-> JNull, i |-> i + 4]
             ELSE ParseNumber(s, i)

\* the elements of an array from position i, up to and including "]"
ParseElements(s, i, acc) ==
  LET r == ParseValue(s, i)
  IN IF ~r.ok THEN Fail
     ELSE LET j == SkipBlank(s, r.i)
          IN IF j > Len(s) THEN Fail
             ELSE IF CharAt(s, j) = "," THEN ParseElements(s, j + 1, Append(acc, r.v))
             ELSE IF CharAt(s, j) = "]"
               THEN [ok |-> TRUE, v |-> JArr(Append(acc, r.v)), i |-> j + 1]
             ELSE Fail

\* the members of an object from position i, up to and including "}"; a
\* repeated key overwrites the earlier entry of the map
ParseMembers(s, i0, acc) ==
  LET i == SkipBlank(s, i0)
  IN IF i > Len(s) \/ CharAt(s, i) # "\"" THEN Fail
     ELSE LET k == ParseStringBody(s, i + 1, "")
          IN IF ~k.ok THEN Fail
             ELSE LET j == SkipBlank(s, k.i)
                  IN IF j > Len(s) \/ CharAt(s, j) # ":" THEN Fail
                     ELSE LET r == ParseValue(s, j + 1)
                          IN IF ~r.ok THEN Fail
                             ELSE LET e == SkipBlank(s, r.i)
                                      m == MapPut(acc, k.v.s, r.v)
                                  IN IF e > Len(s) THEN Fail
                                     ELSE IF CharAt(s, e) = ","
                                       THEN ParseMembers(s, e + 1, m)
                                     ELSE IF CharAt(s, e) = "}"
                                       THEN [ok |-> TRUE, v |-> JObj(m), i |-> e + 1]
                                     ELSE Fail

\* json.Unmarshal([]byte(text), &m) with m a nil map[string]interface{}:
\* an error for a text that is not one JSON value and for a value that is
\* neither an object nor null; null is no error and leaves the map nil
\* (empty).  [err, m] is the error flag and the map after the call.
UnmarshalMap(text) ==
  LET r == ParseValue(text, 1)
  IN IF ~r.ok \/ SkipBlank(text, r.i) <= Len(text)
       THEN [err |-> TRUE, m |-> EmptyMap]
     ELSE IF r.v.t = "object" THEN [err |-> FALSE, m |-> r.v.m]
     ELSE IF r.v.t = "null" THEN [err |-> FALSE, m |-> EmptyMap]
     ELSE [err |-> TRUE, m |-> EmptyMap]

\* every order in which a range loop can visit the keys of a map
Orders(m) ==
  LET n == Cardinality(DOMAIN m)
  IN {f \in [1..n -> DOMAIN m] : \A i, j \in 1..n : i # j => f[i] # f[j]}

\* {a + b : a \in A, b \in B}: the sums two set-valued counts can make
SetSum(A, B) == {a + b : a \in A, b \in B}

(***************************************************************************)
(* Schema renderer (formatFunctionDefinitions, formatObjectProperties,     *)
(* formatType).  A schema node is the map[string]interface{} that          *)
(* json.Marshal followed by json.Unmarshal makes of Function.Parameters.   *)
(***************************************************************************)
\* fmt.Sprintf("%s", val) of a decoded enum literal
VerbS(val) ==
  CASE val.t = "string" -> val.s
    [] val.t = "number" -> "%!s(float64=" \o NumText(val.n) \o ")"
    [] val.t = "bool" -> "%!s(bool=" \o (IF val.b THEN "true" ELSE "false") \o ")"
    [] OTHER -> "%!s(<nil>)"

\* fmt.Sprintf("%v", val) of a decoded enum literal
VerbV(val) ==
  CASE val.t = "string" -> val.s
    [] val.t = "number" -> NumText(val.n)
    [] val.t = "bool" -> (IF val.b THEN "true" ELSE "false")
    [] OTHER -> "<nil>"

\* lines[i] = indentSpaces + line
IndentLines(lines, indent) == [i \in 1..Len(lines) |-> Spaces(indent) \o lines[i]]

RECURSIVE formatObjectProperties(_, _)
RECURSIVE formatType(_, _)
RECURSIVE PropertyLines(_, _, _, _, _)

\* (mutation of PropertyLines: the ? marks the required keys)
PropertyLines_requiredMarked(properties, requiredFields, ord, i, indent) ==
  IF i > Len(ord) THEN {<<>>}
  ELSE LET key == ord[i]
           prop == properties[key]
           rest == PropertyLines(properties, requiredFields, ord, i + 1, indent)
       IN IF prop.t # "object" THEN rest
          ELSE LET props == prop.m
                   description == IF IsStr(props, "description")
                                    THEN props["description"].s ELSE ""
                   dl == IF description # "" THEN <<"// " \o description>> ELSE <<>>
                   question == IF key \in requiredFields THEN "?" ELSE ""
               IN {dl \o <<key \o question \o ":" \o ft \o ",">> \o r :
                     ft \in formatType(props, indent), r \in rest}

\* The loop body of formatObjectProperties over the keys ord[i..], visited
\* in the order ord: the description line and the "key?:type," line of
\* every property that is a JSON object.
PropertyLines(properties, requiredFields, ord, i, indent) ==
  IF i > Len(ord) THEN {<<>>}
  ELSE LET key == ord[i]
           prop == properties[key]
           rest == PropertyLines(properties, requiredFields, ord, i + 1, indent)
       IN IF prop.t # "object" THEN rest
          ELSE LET props == prop.m
                   description == IF IsStr(props, "description")
                                    THEN props["description"].s ELSE ""
                   dl == IF description # "" THEN <<"// " \o description>> ELSE <<>>
                   question == IF key \in requiredFields THEN "" ELSE "?"
               IN {dl \o <<key \o question \o ":" \o ft \o ",">> \o r :
                     ft \in formatType(props, indent), r \in rest}

formatObjectProperties(p, indent) ==
  IF ~IsMap(p, "properties") THEN {""}
  ELSE LET properties == p["properties"].m
           required == IF IsArr(p, "required") THEN p["required"].a ELSE <<>>
           requiredFields == {required[j].s :
                                j \in {k \in 1..Len(required) : required[k].t = "string"}}
       IN {Join(IndentLines(ls, indent), "\n") :
             ls \in UNION {PropertyLines(properties, requiredFields, ord, 1, indent) :
                             ord \in Orders(properties)}}

\* (mutation of formatType: an unrecognised type is rendered as any)
formatType_anyDefault(props, indent) ==
  IF ~IsStr(props, "type") THEN {""}
  ELSE LET typ == props["type"].s
       IN CASE typ = "string" ->
                 IF IsArr(props, "enum")
                   THEN LET enum == props["enum"].a
                        IN {Join([j \in 1..Len(enum) |-> "\"" \o VerbS(enum[j]) \o "\""], " | ")}
                   ELSE {"string"}
            [] typ = "array" ->
                 IF IsMap(props, "items")
                   THEN {ft \o "[]" : ft \in formatType(props["items"].m, indent)}
                   ELSE {"any[]"}
            [] typ = "object" ->
                 IF IsMap(props, "properties")
                   THEN {"{\n" \o b \o "\n}" :
                           b \in formatObjectProperties(props["properties"].m, indent + 2)}
                   ELSE {"{}"}
            [] typ \in {"integer", "number"} ->
                 IF IsArr(props, "enum")
                   THEN LET enum == props["enum"].a
                        IN {Join([j \in 1..Len(enum) |-> VerbV(enum[j])], " | ")}
                   ELSE {"number"}
            [] typ = "boolean" -> {"boolean"}
            [] typ = "null" -> {"null"}
            [] OTHER -> {"any"}

formatType(props, indent) ==
  IF ~IsStr(props, "type") THEN {""}
  ELSE LET typ == props["type"].s
       IN CASE typ = "string" ->
                 IF IsArr(props, "enum")
                   THEN LET enum == props["enum"].a
                        IN {Join([j \in 1..Len(enum) |-> "\"" \o VerbS(enum[j]) \o "\""], " | ")}
                   ELSE {"string"}
            [] typ = "array" ->
                 IF IsMap(props, "items")
                   THEN {ft \o "[]" : ft \in formatType(props["items"].m, indent)}
                   ELSE {"any[]"}
            [] typ = "object" ->
                 IF IsMap(props, "properties")
                   THEN {"{\n" \o b \o "\n}" :
                           b \in formatObjectProperties(props["properties"].m, indent + 2)}
                   ELSE {"{}"}
            [] typ \in {"integer", "number"} ->
                 IF IsArr(props, "enum")
                   THEN LET enum == props["enum"].a
                        IN {Join([j \in 1..Len(enum) |-> VerbV(enum[j])], " | ")}
                   ELSE {"number"}
            [] typ = "boolean" -> {"boolean"}
            [] typ = "null" -> {"null"}
            [] OTHER -> {""}

\* json.Unmarshal(paramsJSON, &params), its error ignored: the map of an
\* object, the nil (empty) map of anything else.
ParamsMap(paramsJSON) == UnmarshalMap(paramsJSON).m

\* (mutation of ToolLines: the description line is appended also when the
\* description is empty)
ToolLines_alwaysDescribed(tool) ==
  LET function == tool.Function
      dl == <<"// " \o function.Description>>
      params == ParamsMap(function.Parameters)
  IN IF IsMap(params, "properties") /\ Cardinality(DOMAIN params["properties"].m) > 0
       THEN {dl \o <<"type " \o function.Name \o " = (_: {", b, "}) => any;">> :
               b \in formatObjectProperties(params, 0)}
       ELSE {dl \o <<"type " \o function.Name \o " = () => any;">>}

\* the lines one tool appends, in the body of the loop over tools
ToolLines(tool) ==
  LET function == tool.Function
      dl == IF function.Description # ""
              THEN <<"// " \o function.Description>> ELSE <<>>
      params == ParamsMap(function.Parameters)
  IN IF IsMap(params, "properties") /\ Cardinality(DOMAIN params["properties"].m) > 0
       THEN {dl \o <<"type " \o function.Name \o " = (_: {", b, "}) => any;">> :
               b \in formatObjectProperties(params, 0)}
       ELSE {dl \o <<"type " \o function.Name \o " = () => any;">>}

\* the lines of all tools, in input order
RECURSIVE AllToolLines(_)
AllToolLines(tools) ==
  IF Len(tools) = 0 THEN {<<>>}
  ELSE {a \o b : a \in ToolLines(Head(tools)), b \in AllToolLines(Tail(tools))}

formatFunctionDefinitions(tools) ==
  {Join(<<"# Tools", "## functions", "namespace functions {">> \o ls
          \o <<"} // namespace functions">>, "\n") :
     ls \in AllToolLines(tools)}

(***************************************************************************)
(* Value renderer of src/counter.go.                                       *)
(***************************************************************************)
\* the scalars formatValue prints with "\"%v\"": string and float64
IsPrintable(v) == v.t \in {"string", "number"}

formatValue(value) ==
  IF IsPrintable(value) THEN "\"" \o VerbV(value) \o "\""
  ELSE IF value.t = "array"
    THEN "[" \o Join([j \in 1..Len(value.a) |->
                        IF IsPrintable(value.a[j])
                          THEN "\"" \o VerbV(value.a[j]) \o "\"" ELSE "\"\""], ",") \o "]"
  ELSE "\"\""

formatField(fieldName, value, useQuotes) ==
  IF useQuotes THEN "\"" \o fieldName \o "\": " \o formatValue(value)
  ELSE fieldName \o ":" \o formatValue(value)

stringifyObject(jsonObject, useQuotes) ==
  IF Cardinality(DOMAIN jsonObject) = 1
    THEN {"{" \o formatField(k, jsonObject[k], useQuotes) \o "}\n" : k \in DOMAIN jsonObject}
    ELSE {LET properties == [j \in 1..Len(ord) |->
                               formatField(ord[j], jsonObject[ord[j]], useQuotes)]
              lines == IF Len(properties) > 0 THEN <<Join(properties, ", ")>> ELSE <<>>
          IN "{" \o Join(lines, "\n") \o "}\n" : ord \in Orders(jsonObject)}

\* [err, texts]: the error flag and the texts formatArguments can return
formatArguments(arguments) ==
  LET u == UnmarshalMap(arguments)
  IN IF u.err THEN [err |-> TRUE, texts |-> {""}]
     ELSE IF Cardinality(DOMAIN u.m) = 0 THEN [err |-> FALSE, texts |-> {"{}\n"}]
     ELSE [err |-> FALSE, texts |-> stringifyObject(u.m, FALSE)]

(***************************************************************************)
(* Value renderer of the second counter.                                   *)
(***************************************************************************)
RECURSIVE formatValue_p2(_, _)
RECURSIVE stringifyObject_p2(_, _)
RECURSIVE ElementTexts_p2(_, _)

\* the element texts of an array, in index order
ElementTexts_p2(a, useQuotes) ==
  IF Len(a) = 0 THEN {<<>>}
  ELSE {<<e>> \o r : e \in formatValue_p2(Head(a), useQuotes),
                     r \in ElementTexts_p2(Tail(a), useQuotes)}

formatValue_p2(value, useQuotes) ==
  CASE value.t = "string" -> {Quote(value.s)}
    [] value.t \in {"number", "bool"} -> {VerbV(value)}
    [] value.t = "array" ->
         {"[" \o Join(es, ",") \o "]" : es \in ElementTexts_p2(value.a, useQuotes)}
    [] value.t = "object" -> stringifyObject_p2(value.m, useQuotes)
    [] OTHER -> {"null"}

formatField_p2(fieldName, value, useQuotes) ==
  {IF useQuotes THEN Quote(fieldName) \o ":" \o fv ELSE fieldName \o ":" \o fv :
     fv \in formatValue_p2(value, useQuotes)}

\* the field texts of the keys ord[i..], visited in the order ord
RECURSIVE FieldTexts_p2(_, _, _, _)
FieldTexts_p2(jsonObject, ord, i, useQuotes) ==
  IF i > Len(ord) THEN {<<>>}
  ELSE {<<f>> \o r : f \in formatField_p2(ord[i], jsonObject[ord[i]], useQuotes),
                     r \in FieldTexts_p2(jsonObject, ord, i + 1, useQuotes)}

stringifyObject_p2(jsonObject, useQuotes) ==
  IF Cardinality(DOMAIN jsonObject) = 0 THEN {"{}"}
  ELSE {"{" \o Join(properties, ",") \o "}" :
          properties \in UNION {FieldTexts_p2(jsonObject, ord, 1, useQuotes) :
                                  ord \in Orders(jsonObject)}}

(***************************************************************************)
(* Counters of src/counter.go.  A message is                               *)
(* [Role, Content, Name, ToolCalls], a tool call [Type, Function] with     *)
(* Function = [Name, Arguments], a tool [Function] with                    *)
(* Function = [Name, Description, Parameters]; Parameters is the JSON      *)
(* text json.Marshal makes of it.  A request is                            *)
(* [Messages, Tools, ToolChoice].                                          *)
(***************************************************************************)
tokensPerReqMessage == 3
tokensPerToolCall == 4
tokensPerName == 1
tokensForMultiTool == 13

\* (mutation of ContentTokens: tool content is rendered like tool-call
\* arguments, without quotes around the keys)
ContentTokens_unquoted(message) ==
  IF message.Role = "tool"
    THEN LET u == UnmarshalMap(message.Content)
         IN IF u.err THEN {CountTokens(message.Content)}
            ELSE {CountTokens(stringified) : stringified \in stringifyObject(u.m, FALSE)}
    ELSE {CountTokens(message.Content)}

\* the tokens of message.Content
ContentTokens(message) ==
  IF message.Role = "tool"
    THEN LET u == UnmarshalMap(message.Content)
         IN IF u.err THEN {CountTokens(message.Content)}
            ELSE {CountTokens(stringified) : stringified \in stringifyObject(u.m, TRUE)}
    ELSE {CountTokens(message.Content)}

\* (mutation of ToolCallTokens: name and arguments are counted whatever the
\* type of the tool call)
ToolCallTokens_anyType(tc) ==
  LET base == tokensPerToolCall + CountTokens(tc.Type)
      names == CountTokens(tc.Function.Name) * 2
      fa == formatArguments(tc.Function.Arguments)
  IN IF fa.err THEN {base + names}
     ELSE {base + names + CountTokens(args) : args \in fa.texts}

\* the tokens one tool call adds in the loop over message.ToolCalls
ToolCallTokens(tc) ==
  LET base == tokensPerToolCall + CountTokens(tc.Type)
  IN IF tc.Type = "function"
       THEN LET names == CountTokens(tc.Function.Name) * 2
                fa == formatArguments(tc.Function.Arguments)
            IN IF fa.err THEN {base + names}
               ELSE {base + names + CountTokens(args) : args \in fa.texts}
       ELSE {base}

RECURSIVE ToolCallsTokens(_)
ToolCallsTokens(toolCalls) ==
  IF Len(toolCalls) = 0 THEN {0}
  ELSE SetSum(ToolCallTokens(Head(toolCalls)), ToolCallsTokens(Tail(toolCalls)))

\* Add 4 when both content and tools are present.
BothPresent(message) ==
  IF Len(message.ToolCalls) > 0 /\ message.Content # "" THEN 4 ELSE 0

\* (mutation of NameTokens: tokensPerName is left out)
NameTokens_noOverhead(message) ==
  IF message.Name # "" THEN CountTokens(message.Name) ELSE 0

NameTokens(message) ==
  IF message.Name # "" THEN CountTokens(message.Name) + tokensPerName ELSE 0

\* (mutation of CountMessageTokens: the loop over the tool calls starts each
\* round with count = tokensPerToolCall instead of count += tokensPerToolCall)
CountMessageTokens_reset(message) ==
  IF Len(message.ToolCalls) = 0
    THEN {CountTokens(message.Role) + c + NameTokens(message) :
            c \in ContentTokens(message)}
    ELSE {t + BothPresent(message) + NameTokens(message) :
            t \in ToolCallTokens(message.ToolCalls[Len(message.ToolCalls)])}

CountMessageTokens(message) ==
  {CountTokens(message.Role) + c + t + BothPresent(message) + NameTokens(message) :
     c \in ContentTokens(message), t \in ToolCallsTokens(message.ToolCalls)}

\* (mutation of FirstSystem: the last system message is chosen)
LastSystem(messages) ==
  LET sys == {i \in 1..Len(messages) : messages[i].Role = "system"}
  IN IF sys = {} THEN 0 ELSE CHOOSE i \in sys : \A j \in sys : j <= i

\* the index of the first message with role system, 0 if there is none
RECURSIVE FirstSystemFrom(_, _)
FirstSystemFrom(messages, i) ==
  IF i > Len(messages) THEN 0
  ELSE IF messages[i].Role = "system" THEN i
  ELSE FirstSystemFrom(messages, i + 1)

FirstSystem(messages) == FirstSystemFrom(messages, 1)

\* (mutation of InsertTools: without a system message the new one is
\* appended after the messages instead of prepended)
InsertTools_appended(messages, toolBlock) ==
  LET i == FirstSystem(messages)
  IN IF i > 0
       THEN LET written == [messages EXCEPT
                              ![i].Content = messages[i].Content \o "\n\n" \o toolBlock]
            IN [local |-> written, caller |-> written]
       ELSE [local |-> messages \o <<[Role |-> "system", Content |-> toolBlock,
                                      Name |-> "", ToolCalls |-> <<>>]>>,
             caller |-> messages]

\* (mutation of InsertTools: the new system message is prepended in the
\* caller's sequence too)
InsertTools_shared(messages, toolBlock) ==
  LET i == FirstSystem(messages)
  IN IF i > 0
       THEN LET written == [messages EXCEPT
                              ![i].Content = messages[i].Content \o "\n\n" \o toolBlock]
            IN [local |-> written, caller |-> written]
       ELSE LET prepended == <<[Role |-> "system", Content |-> toolBlock,
                                Name |-> "", ToolCalls |-> <<>>]>> \o messages
            IN [local |-> prepended, caller |-> prepended]

\* The tool block lands in req.Messages.  req is a copy of the caller's
\* request, but its Messages slice shares the caller's backing array:
\* req.Messages[i].Content = ... writes the caller's message, while
\* req.Messages = append(new, req.Messages...) makes a fresh array.
\* [local, caller]: the messages the call goes on to count and the
\* caller's messages after the call.
InsertTools(messages, toolBlock) ==
  LET i == FirstSystem(messages)
  IN IF i > 0
       THEN LET written == [messages EXCEPT
                              ![i].Content = messages[i].Content \o "\n\n" \o toolBlock]
            IN [local |-> written, caller |-> written]
       ELSE [local |-> <<[Role |-> "system", Content |-> toolBlock,
                          Name |-> "", ToolCalls |-> <<>>]>> \o messages,
             caller |-> messages]

\* the sums of tokensPerReqMessage + CountMessageTokens over the messages
RECURSIVE MessagesTokens(_)
MessagesTokens(messages) ==
  IF Len(messages) = 0 THEN {0}
  ELSE SetSum({tokensPerReqMessage + n : n \in CountMessageTokens(Head(messages))},
              MessagesTokens(Tail(messages)))

ToolMessages(messages) ==
  Cardinality({i \in 1..Len(messages) : messages[i].Role = "tool"})

\* (mutation of MultiTool: the correction starts at one tool message)
MultiTool_fromOne(messages) ==
  IF ToolMessages(messages) > 0 THEN tokensForMultiTool ELSE 0

\* (mutation of MultiTool: the correction grows with the tool messages)
MultiTool_scaled(messages) ==
  IF ToolMessages(messages) > 1
    THEN tokensForMultiTool * (ToolMessages(messages) - 1) ELSE 0

MultiTool(messages) ==
  IF ToolMessages(messages) > 1 THEN tokensForMultiTool ELSE 0

\* The outcomes of CountRequestTokens(req): [count, local, caller], the
\* returned integer, the messages the counting loops ranged over and the
\* caller's messages after the call.
CountRequestTokens(req) ==
  IF Len(req.Tools) > 0
    THEN UNION {LET ins == InsertTools(req.Messages, toolBlock)
                IN {[count |-> 3 + n + MultiTool(ins.local),
                     local |-> ins.local, caller |-> ins.caller] :
                      n \in MessagesTokens(ins.local)} :
                  toolBlock \in formatFunctionDefinitions(req.Tools)}
    ELSE {[count |-> 3 + n + MultiTool(req.Messages),
           local |-> req.Messages, caller |-> req.Messages] :
            n \in MessagesTokens(req.Messages)}

\* (mutation of ChoiceTokens: the 3 are removed for every choice with tool
\* calls, whatever its content)
ChoiceTokens_anyContent(message) ==
  {n - CountTokens(message.Role)
     - (IF Len(message.ToolCalls) > 0 THEN 1 ELSE 0)
     - (IF Len(message.ToolCalls) > 0 THEN 3 ELSE 0) :
     n \in CountMessageTokens(message)}

\* (mutation of ChoiceTokens: the 1 is removed for every choice, with or
\* without tool calls)
ChoiceTokens_alwaysDeducted(message) ==
  {n - CountTokens(message.Role) - 1
     - (IF Len(message.ToolCalls) > 0 /\ message.Content # "" THEN 3 ELSE 0) :
     n \in CountMessageTokens(message)}

\* what one choice adds to the count of CountRespTokens
ChoiceTokens(message) ==
  {n - CountTokens(message.Role)
     - (IF Len(message.ToolCalls) > 0 THEN 1 ELSE 0)
     - (IF Len(message.ToolCalls) > 0 /\ message.Content # "" THEN 3 ELSE 0) :
     n \in CountMessageTokens(message)}

RECURSIVE ChoicesTokens(_)
ChoicesTokens(choices) ==
  IF Len(choices) = 0 THEN {0}
  ELSE SetSum(ChoiceTokens(Head(choices).Message), ChoicesTokens(Tail(choices)))

CountRespTokens(resp) == ChoicesTokens(resp.Choices)

\* (mutation of CountToolTokens: the 3 are left out)
CountToolTokens_noOverhead(tools) ==
  {CountTokens(txt) : txt \in formatFunctionDefinitions(tools)}

CountToolTokens(tools) == {CountTokens(txt) + 3 : txt \in formatFunctionDefinitions(tools)}

(***************************************************************************)
(* Counters of the second counter.                                         *)
(***************************************************************************)
ContentTokens_p2(message) ==
  IF message.Role = "tool"
    THEN LET u == UnmarshalMap(message.Content)
         IN IF u.err
              THEN {CountTokens(Quote("text") \o ": " \o Quote(message.Content))}
              ELSE {CountTokens(stringified) :
                      stringified \in stringifyObject_p2(u.m, TRUE)}
    ELSE {CountTokens(message.Content)}

ToolCallTokens_p2(tc) ==
  CountTokens("\"name\":" \o Quote(tc.Function.Name)
                \o ", \"arguments\":" \o Quote(tc.Function.Arguments))

RECURSIVE ToolCallsTokens_p2(_)
ToolCallsTokens_p2(toolCalls) ==
  IF Len(toolCalls) = 0 THEN 0
  ELSE ToolCallTokens_p2(Head(toolCalls)) + ToolCallsTokens_p2(Tail(toolCalls))

CountMessageTokens_p2(message) ==
  {CountTokens(message.Role) + c + ToolCallsTokens_p2(message.ToolCalls)
     + NameTokens(message) : c \in ContentTokens_p2(message)}

RECURSIVE MessagesTokens_p2(_)
MessagesTokens_p2(messages) ==
  IF Len(messages) = 0 THEN {0}
  ELSE SetSum({tokensPerReqMessage + got : got \in CountMessageTokens_p2(Head(messages))},
              MessagesTokens_p2(Tail(messages)))

\* A ToolChoice field (type any) is [kind, name]: kind "nil" for no value,
\* "ToolChoice" for an openai.ToolChoice struct, "*ToolChoice" for a pointer
\* to one, "string" for a string such as "auto" (held in name).
\* (mutation of countToolChoice: the name is counted for every value)
countToolChoice_anyKind(toolChoice) ==
  CountTokens("{\n \"name\": \"" \o toolChoice.name \o "\"\n}")

countToolChoice(toolChoice) ==
  IF toolChoice.kind = "ToolChoice"
    THEN CountTokens("{\n \"name\": \"" \o toolChoice.name \o "\"\n}")
    ELSE 0

ToolChoiceTokens_p2(req) ==
  IF req.ToolChoice.kind # "nil" THEN countToolChoice(req.ToolChoice) ELSE 0

CountRequestTokens_p2(req) ==
  IF Len(req.Tools) > 0
    THEN UNION {LET ins == InsertTools(req.Messages, toolBlock)
                IN {[count |-> 3 + n + MultiTool(ins.local) + ToolChoiceTokens_p2(req),
                     local |-> ins.local, caller |-> ins.caller] :
                      n \in MessagesTokens_p2(ins.local)} :
                  toolBlock \in formatFunctionDefinitions(req.Tools)}
    ELSE {[count |-> 3 + n + MultiTool(req.Messages) + ToolChoiceTokens_p2(req),
           local |-> req.Messages, caller |-> req.Messages] :
            n \in MessagesTokens_p2(req.Messages)}

RECURSIVE ChoicesTokens_p2(_)
ChoicesTokens_p2(choices) ==
  IF Len(choices) = 0 THEN {0}
  ELSE SetSum({n - CountTokens(Head(choices).Message.Role) :
                 n \in CountMessageTokens_p2(Head(choices).Message)},
              ChoicesTokens_p2(Tail(choices)))

CountResponseTokens_p2(resp) == ChoicesTokens_p2(resp.Choices)

(***************************************************************************)
(* The inputs of the model.                                                *)
(***************************************************************************)
NoCalls == <<>>

WeatherCall ==
  [Type |-> "function",
   Function |-> [Name |-> "get_weather",
                 Arguments |-> "{\"city\":\"Oslo\",\"days\":2}"]]

SystemMessage ==
  [Role |-> "system", Content |-> "Be brief.", Name |-> "", ToolCalls |-> NoCalls]

PolicyMessage ==
  [Role |-> "system", Content |-> "No jokes", Name |-> "ops", ToolCalls |-> NoCalls]

AssistantMessage ==
  [Role |-> "assistant", Content |-> "ok", Name |-> "",
   ToolCalls |-> <<WeatherCall>>]

ToolJSONMessage ==
  [Role |-> "tool", Content |-> "{\"temp\": 45, \"unit\": \"C\"}", Name |-> "",
   ToolCalls |-> NoCalls]

\* the messages a request is made of
MessagePool == {SystemMessage, PolicyMessage, AssistantMessage, ToolJSONMessage}

ReplyMessage ==
  [Role |-> "assistant", Content |-> "It is sunny.", Name |-> "", ToolCalls |-> NoCalls]

CallMessage ==
  [Role |-> "assistant", Content |-> "", Name |-> "",
   ToolCalls |-> <<WeatherCall, [Type |-> "function",
                                 Function |-> [Name |-> "ping", Arguments |-> "{}"]]>>]

\* a completion without content and without tool calls
EmptyReply ==
  [Role |-> "assistant", Content |-> "", Name |-> "", ToolCalls |-> NoCalls]

\* the messages the choices of a response carry
ChoicePool == {AssistantMessage, ReplyMessage, CallMessage, EmptyReply}

WeatherTool ==
  [Function |->
     [Name |-> "get_weather", Description |-> "Get the weather.",
      Parameters |-> "{\"type\":\"object\",\"properties\":{\"location\":{\"type\":\"string\",\"description\":\"The city\"},\"unit\":{\"type\":\"string\",\"enum\":[\"c\",\"f\"]}},\"required\":[\"location\"]}"]]

PingTool ==
  [Function |->
     [Name |-> "ping", Description |-> "",
      Parameters |-> "{\"type\":\"object\",\"properties\":{}}"]]

ToolLists == {<<>>, <<WeatherTool>>, <<PingTool, WeatherTool>>}

\* a tool whose Parameters is nil: json.Marshal makes the text null of it
BareTool ==
  [Function |-> [Name |-> "now", Description |-> "Tell the time.",
                 Parameters |-> "null"]]

NoToolChoice == [kind |-> "nil", name |-> ""]

ToolChoices ==
  {NoToolChoice, [kind |-> "ToolChoice", name |-> "get_weather"],
   [kind |-> "string", name |-> "auto"],
   [kind |-> "*ToolChoice", name |-> "get_weather"]}

ListsOver(pool) == UNION {[1..n -> pool] : n \in 0..MaxMsgs}

\* JSON texts that decode into a map: tool content and tool-call arguments
ObjectTexts ==
  {"{\"temp\": 45, \"unit\": \"C\"}", "{\"city\":\"Oslo\",\"days\":2}",
   "{\"city\":\"Oslo\"}", "{}", "{\"in\":{\"k\":\"v\"}}",
   "{\"ok\":true,\"none\":null,\"tags\":[\"a\",1]}"}

(***************************************************************************)
(* The caller.  It holds one request (messages, tools, toolChoice) and     *)
(* calls the counter on it; calls counts the calls made.  last records     *)
(* the latest call: its name, its argument, the integer (out) or the text  *)
(* it returned, the caller's messages right before it and, for a request   *)
(* count, the messages the counting loops ranged over (local).             *)
(***************************************************************************)
VARIABLES messages, tools, toolChoice, calls, last

vars == <<messages, tools, toolChoice, calls, last>>

NoCall == [op |-> "none", arg |-> <<>>, out |-> 0, text |-> "",
           before |-> <<>>, local |-> <<>>]

Request == [Messages |-> messages, Tools |-> tools, ToolChoice |-> toolChoice]

\* a response whose choices carry the messages held
Response == [Choices |-> [i \in 1..Len(messages) |-> [Message |-> messages[i]]]]

Init ==
  /\ messages \in ListsOver(MessagePool)
  /\ tools \in ToolLists
  /\ toolChoice \in ToolChoices
  /\ calls = 0
  /\ last = NoCall

Returned(op, arg, out, text, local) ==
  /\ calls' = calls + 1
  /\ last' = [op |-> op, arg |-> arg, out |-> out, text |-> text,
              before |-> messages, local |-> local]

CallCountRequestTokens ==
  /\ calls < MaxCalls
  /\ \E o \in CountRequestTokens(Request) :
       /\ Returned("CountRequestTokens", <<>>, o.count, "", o.local)
       /\ messages' = o.caller
  /\ UNCHANGED <<tools, toolChoice>>

CallCountRequestTokens_p2 ==
  /\ calls < MaxCalls
  /\ \E o \in CountRequestTokens_p2(Request) :
       /\ Returned("CountRequestTokens_p2", <<>>, o.count, "", o.local)
       /\ messages' = o.caller
  /\ UNCHANGED <<tools, toolChoice>>

Next ==
  \/ CallCountRequestTokens
  \/ CallCountRequestTokens_p2

Spec == Init /\ [][Next]_vars

(***************************************************************************)
(* Counting a response: the inputs are the choices, the actions apply the  *)
(* two response counters.                                                  *)
(***************************************************************************)
InitResp ==
  /\ messages \in ListsOver(ChoicePool)
  /\ tools = <<>>
  /\ toolChoice = NoToolChoice
  /\ calls = 0
  /\ last = NoCall

CallCountRespTokens ==
  /\ calls < MaxCalls
  /\ \E n \in CountRespTokens(Response) :
       Returned("CountRespTokens", <<>>, n, "", <<>>)
  /\ UNCHANGED <<messages, tools, toolChoice>>

CallCountResponseTokens_p2 ==
  /\ calls < MaxCalls
  /\ \E n \in CountResponseTokens_p2(Response) :
       Returned("CountResponseTokens_p2", <<>>, n, "", <<>>)
  /\ UNCHANGED <<messages, tools, toolChoice>>

NextResp ==
  \/ CallCountRespTokens
  \/ CallCountResponseTokens_p2

SpecResp == InitResp /\ [][NextResp]_vars

(***************************************************************************)
(* Rendering: the inputs are a tool list and the JSON texts, the actions   *)
(* apply the schema renderer and the two value renderers.                  *)
(***************************************************************************)
InitRender ==
  /\ messages = <<>>
  /\ tools \in ToolLists \cup {<<BareTool>>, <<BareTool, PingTool>>}
  /\ toolChoice = NoToolChoice
  /\ calls = 0
  /\ last = NoCall

CallFormatFunctionDefinitions ==
  /\ calls < MaxCalls
  /\ \E txt \in formatFunctionDefinitions(tools) :
       Returned("formatFunctionDefinitions", <<>>, 0, txt, <<>>)
  /\ UNCHANGED <<messages, tools, toolChoice>>

\* stringifyObject is reached with the decoded map of a JSON text
CallStringifyObject ==
  /\ calls < MaxCalls
  /\ \E txt \in ObjectTexts, useQuotes \in BOOLEAN :
       \E stringified \in stringifyObject(UnmarshalMap(txt).m, useQuotes) :
         Returned("stringifyObject", <<txt, useQuotes>>, 0, stringified, <<>>)
  /\ UNCHANGED <<messages, tools, toolChoice>>

CallStringifyObject_p2 ==
  /\ calls < MaxCalls
  /\ \E txt \in ObjectTexts, useQuotes \in BOOLEAN :
       \E stringified \in stringifyObject_p2(UnmarshalMap(txt).m, useQuotes) :
         Returned("stringifyObject_p2", <<txt, useQuotes>>, 0, stringified, <<>>)
  /\ UNCHANGED <<messages, tools, toolChoice>>

CallCountToolTokens ==
  /\ calls < MaxCalls
  /\ \E n \in CountToolTokens(tools) :
       Returned("CountToolTokens", <<>>, n, "", <<>>)
  /\ UNCHANGED <<messages, tools, toolChoice>>

NextRender ==
  \/ CallFormatFunctionDefinitions
  \/ CallCountToolTokens
  \/ CallStringifyObject
  \/ CallStringifyObject_p2

SpecRender == InitRender /\ [][NextRender]_vars

(***************************************************************************)
(* Counting one message: the caller holds one message (messages[1]),       *)
(* may give it a name and append tool calls to it, and calls the two       *)
(* message counters on it.  last.arg is the message of the latest call.    *)
(***************************************************************************)
\* a tool call whose arguments are cut short: not JSON
BrokenCall ==
  [Type |-> "function",
   Function |-> [Name |-> "get_weather", Arguments |-> "{\"city\":"]]

\* the tool calls a message can carry
CallPool == {WeatherCall, BrokenCall}

RolePool == {"user", "assistant", "tool"}

\* contents: none, plain text, a JSON object, a JSON array, the literal
\* null, a JSON object cut short
ContentPool ==
  {"", "It is sunny.", "{\"temp\": 45, \"unit\": \"C\"}", "[1,2]", "null",
   "{\"temp\": 45"}

NamePool == {"bob"}

InitMsg ==
  /\ messages \in {<<[Role |-> r, Content |-> c, Name |-> "", ToolCalls |-> NoCalls]>> :
                     r \in RolePool, c \in ContentPool}
  /\ tools = <<>>
  /\ toolChoice = NoToolChoice
  /\ calls = 0
  /\ last = NoCall

\* the caller sets message.Name
SetName ==
  /\ messages[1].Name = ""
  /\ \E name \in NamePool : messages' = <<[messages[1] EXCEPT !.Name = name]>>
  /\ UNCHANGED <<tools, toolChoice, calls, last>>

\* the caller appends one tool call to message.ToolCalls
AppendToolCall ==
  /\ Len(messages[1].ToolCalls) < MaxToolCalls
  /\ \E tc \in CallPool :
       messages' = <<[messages[1] EXCEPT !.ToolCalls = Append(@, tc)]>>
  /\ UNCHANGED <<tools, toolChoice, calls, last>>

CallCountMessageTokens ==
  /\ calls < MaxCalls
  /\ \E n \in CountMessageTokens(messages[1]) :
       Returned("CountMessageTokens", messages[1], n, "", <<>>)
  /\ UNCHANGED <<messages, tools, toolChoice>>

CallCountMessageTokens_p2 ==
  /\ calls < MaxCalls
  /\ \E n \in CountMessageTokens_p2(messages[1]) :
       Returned("CountMessageTokens_p2", messages[1], n, "", <<>>)
  /\ UNCHANGED <<messages, tools, toolChoice>>

NextMsg ==
  \/ SetName
  \/ AppendToolCall
  \/ CallCountMessageTokens
  \/ CallCountMessageTokens_p2

SpecMsg == InitMsg /\ [][NextMsg]_vars

(***************************************************************************)
(* Calls on degraded input.  openai.Tool.Function is a pointer: a tool     *)
(* entry may carry no function definition.  formatFunctionDefinitions      *)
(* reads function.Description through that pointer, so a nil pointer there *)
(* ends the call in a runtime panic; the caller sees no integer.           *)
(* last.text = "panic" records a call that panicked.                       *)
(***************************************************************************)
\* the nil *FunctionDefinition
NilFunction == [nil |-> TRUE]

\* a tool entry with no function definition
NilTool == [Function |-> NilFunction]

\* a tool whose Parameters is a number, not a schema object
ScalarTool ==
  [Function |-> [Name |-> "three", Description |-> "", Parameters |-> "3"]]

\* a tool whose schema has a property of unknown type, an object property
\* without properties, a property without type and a property that is no
\* JSON object
OddTool ==
  [Function |->
     [Name |-> "odd", Description |-> "Odd one.",
      Parameters |-> "{\"type\":\"object\",\"properties\":{\"a\":{\"type\":\"mystery\"},\"b\":{\"type\":\"object\"},\"c\":{},\"d\":5}}"]]

DegradedToolLists ==
  {<<>>, <<NilTool>>, <<BareTool>>, <<ScalarTool, OddTool>>, <<WeatherTool, NilTool>>}

\* a message whose only tool call has malformed arguments
BrokenCallMessage ==
  [Role |-> "assistant", Content |-> "", Name |-> "", ToolCalls |-> <<BrokenCall>>]

\* tool calls whose type is not function, with well-formed and with
\* malformed arguments
OtherCall ==
  [Type |-> "retrieval",
   Function |-> [Name |-> "get_weather", Arguments |-> "{\"city\":\"Oslo\"}"]]

OtherBrokenCall ==
  [Type |-> "code_interpreter",
   Function |-> [Name |-> "run", Arguments |-> "{\"city\":"]]

OtherCallsMessage ==
  [Role |-> "assistant", Content |-> "", Name |-> "",
   ToolCalls |-> <<OtherCall, WeatherCall, OtherBrokenCall>>]

\* function := tool.Function; function.Description, with function nil for
\* some tool of the list
NilDereference(ts) == \E i \in 1..Len(ts) : ts[i].Function = NilFunction

InitTotal ==
  /\ messages \in UNION {[1..n -> {SystemMessage, BrokenCallMessage, OtherCallsMessage}] :
                            n \in 0..2}
  /\ tools \in DegradedToolLists
  /\ toolChoice = NoToolChoice
  /\ calls = 0
  /\ last = NoCall

Panicked(op) == Returned(op, <<>>, 0, "panic", <<>>)

TryCountToolTokens ==
  /\ calls < MaxCalls
  /\ IF NilDereference(tools)
       THEN Panicked("CountToolTokens")
       ELSE \E n \in CountToolTokens(tools) :
              Returned("CountToolTokens", <<>>, n, "", <<>>)
  /\ UNCHANGED <<messages, tools, toolChoice>>

\* formatFunctionDefinitions runs, before any message is written, only when
\* the request has tools
TryCountRequestTokens ==
  /\ calls < MaxCalls
  /\ IF Len(tools) > 0 /\ NilDereference(tools)
       THEN Panicked("CountRequestTokens") /\ UNCHANGED messages
       ELSE \E o \in CountRequestTokens(Request) :
              /\ Returned("CountRequestTokens", <<>>, o.count, "", o.local)
              /\ messages' = o.caller
  /\ UNCHANGED <<tools, toolChoice>>

TryCountRequestTokens_p2 ==
  /\ calls < MaxCalls
  /\ IF Len(tools) > 0 /\ NilDereference(tools)
       THEN Panicked("CountRequestTokens_p2") /\ UNCHANGED messages
       ELSE \E o \in CountRequestTokens_p2(Request) :
              /\ Returned("CountRequestTokens_p2", <<>>, o.count, "", o.local)
              /\ messages' = o.caller
  /\ UNCHANGED <<tools, toolChoice>>

\* the message and response counters never touch the tools
TryCountMessageTokens ==
  /\ calls < MaxCalls
  /\ \E i \in 1..Len(messages) :
       \/ \E n \in CountMessageTokens(messages[i]) :
            Returned("CountMessageTokens", messages[i], n, "", <<>>)
       \/ \E n \in CountMessageTokens_p2(messages[i]) :
            Returned("CountMessageTokens_p2", messages[i], n, "", <<>>)
  /\ UNCHANGED <<messages, tools, toolChoice>>

TryCountRespTokens ==
  /\ calls < MaxCalls
  /\ \/ \E n \in CountRespTokens(Response) :
          Returned("CountRespTokens", <<>>, n, "", <<>>)
     \/ \E n \in CountResponseTokens_p2(Response) :
          Returned("CountResponseTokens_p2", <<>>, n, "", <<>>)
  /\ UNCHANGED <<messages, tools, toolChoice>>

NextTotal ==
  \/ TryCountToolTokens
  \/ TryCountRequestTokens
  \/ TryCountRequestTokens_p2
  \/ TryCountMessageTokens
  \/ TryCountRespTokens

SpecTotal == InitTotal /\ [][NextTotal]_vars

(***************************************************************************)
(* The schema renderer on single schema nodes: formatObjectProperties and  *)
(* formatType applied to the decoded map of a JSON text, at an indent.     *)
(***************************************************************************)
\* schema nodes with properties: two properties, one described and
\* required; one property with an empty description, listed as required
\* next to an entry that is no string; a node without properties; a node
\* whose property is an object with a required sub-property
NodeTexts ==
  {"{\"type\":\"object\",\"properties\":{\"location\":{\"type\":\"string\",\"description\":\"The city\"},\"unit\":{\"type\":\"string\",\"enum\":[\"c\",\"f\"]}},\"required\":[\"location\"]}",
   "{\"type\":\"object\",\"properties\":{\"n\":{\"type\":\"integer\",\"description\":\"\"}},\"required\":[3,\"n\"]}",
   "{\"type\":\"object\"}",
   "{\"type\":\"object\",\"properties\":{\"place\":{\"type\":\"object\",\"properties\":{\"city\":{\"type\":\"string\"}},\"required\":[\"city\"]}}}"}

\* schema nodes by type
TypeTexts ==
  {"{\"type\":\"string\",\"enum\":[\"c\",\"f\"]}", "{\"type\":\"string\"}",
   "{\"type\":\"integer\",\"enum\":[1,2,3]}", "{\"type\":\"integer\"}",
   "{\"type\":\"number\"}", "{\"type\":\"boolean\"}", "{\"type\":\"null\"}",
   "{\"type\":\"array\",\"items\":{\"type\":\"string\"}}", "{\"type\":\"array\"}",
   "{\"type\":\"array\",\"items\":{\"type\":\"array\",\"items\":{\"type\":\"number\"}}}",
   "{\"type\":\"mystery\"}", "{}", "{\"type\":\"object\"}",
   "{\"type\":\"object\",\"properties\":{\"city\":{\"type\":\"string\"}},\"required\":[\"city\"]}"}

Indents == {0, 2}

\* a tool whose only property has an unrecognised type
MysteryTool ==
  [Function |->
     [Name |-> "odd", Description |-> "",
      Parameters |-> "{\"type\":\"object\",\"properties\":{\"a\":{\"type\":\"mystery\"}}}"]]

InitSchema ==
  /\ messages = <<>>
  /\ tools \in {<<MysteryTool, PingTool>>, <<WeatherTool>>}
  /\ toolChoice = NoToolChoice
  /\ calls = 0
  /\ last = NoCall

CallFormatObjectProperties ==
  /\ calls < MaxCalls
  /\ \E txt \in NodeTexts, indent \in Indents :
       \E out \in formatObjectProperties(UnmarshalMap(txt).m, indent) :
         Returned("formatObjectProperties", <<txt, indent>>, 0, out, <<>>)
  /\ UNCHANGED <<messages, tools, toolChoice>>

CallFormatType ==
  /\ calls < MaxCalls
  /\ \E txt \in TypeTexts, indent \in Indents :
       \E out \in formatType(UnmarshalMap(txt).m, indent) :
         Returned("formatType", <<txt, indent>>, 0, out, <<>>)
  /\ UNCHANGED <<messages, tools, toolChoice>>

NextSchema ==
  \/ CallFormatObjectProperties
  \/ CallFormatType
  \/ CallFormatFunctionDefinitions

SpecSchema == InitSchema /\ [][NextSchema]_vars

(***************************************************************************)
(* The value renderers on single values: formatValue of both counters      *)
(* applied to the decoded value of a JSON text, next to stringifyObject.   *)
(***************************************************************************)
\* JSON texts of every kind of value: a string with quotes inside, a number,
\* a boolean, null, an array with a nested array, a single-key object, a
\* two-key object
ValueTexts ==
  {"\"say \\\"hi\\\"\"", "45", "true", "null", "[\"a\",1,false,[2]]",
   "{\"k\":\"v\"}", "{\"a\":1,\"b\":\"x\"}"}

\* the interface{} value json.Unmarshal makes of the text
ValueOf(txt) == ParseValue(txt, 1).v

InitValue ==
  /\ messages = <<>>
  /\ tools = <<>>
  /\ toolChoice = NoToolChoice
  /\ calls = 0
  /\ last = NoCall

CallFormatValue ==
  /\ calls < MaxCalls
  /\ \E txt \in ValueTexts :
       Returned("formatValue", <<txt, TRUE>>, 0, formatValue(ValueOf(txt)), <<>>)
  /\ UNCHANGED <<messages, tools, toolChoice>>

CallFormatValue_p2 ==
  /\ calls < MaxCalls
  /\ \E txt \in ValueTexts, useQuotes \in BOOLEAN :
       \E out \in formatValue_p2(ValueOf(txt), useQuotes) :
         Returned("formatValue_p2", <<txt, useQuotes>>, 0, out, <<>>)
  /\ UNCHANGED <<messages, tools, toolChoice>>

NextValue ==
  \/ CallStringifyObject
  \/ CallStringifyObject_p2
  \/ CallFormatValue
  \/ CallFormatValue_p2

SpecValue == InitValue /\ [][NextValue]_vars

(***************************************************************************)
(* Properties.                                                             *)
(***************************************************************************)
RequestOps == {"CountRequestTokens", "CountRequestTokens_p2"}

\* countMessage of the counter that served the call op
countMessage(op, message) ==
  IF op \in {"CountRequestTokens", "CountRespTokens"}
    THEN CountMessageTokens(message) ELSE CountMessageTokens_p2(message)

\* the values of the sum, over the first k messages in order, of
\* 3 + countMessage(message)
RECURSIVE SumOfMessages(_, _, _)
SumOfMessages(op, msgs, k) ==
  IF k = 0 THEN {0}
  ELSE {s + 3 + c : s \in SumOfMessages(op, msgs, k - 1),
                    c \in countMessage(op, msgs[k])}

NumberOfToolMessages(msgs) ==
  Cardinality({i \in 1..Len(msgs) : msgs[i].Role = "tool"})

HasSystem(msgs) == \E i \in 1..Len(msgs) : msgs[i].Role = "system"

\* the two-line fragment of a tool choice
ChoiceFragment(name) == "{\n \"name\": \"" \o name \o "\"\n}"

\* what the call op adds for the request's tool choice
ChoiceAdded(op) ==
  IF op = "CountRequestTokens_p2" /\ toolChoice.kind = "ToolChoice"
    THEN CountTokens(ChoiceFragment(toolChoice.name)) ELSE 0

\* the totals of a request whose counted messages are msgs: the priming 3,
\* the messages, the flat 13 for two or more tool messages, the tool choice
TotalsOf(op, msgs) ==
  {3 + s + (IF NumberOfToolMessages(msgs) >= 2 THEN 13 ELSE 0) + ChoiceAdded(op) :
     s \in SumOfMessages(op, msgs, Len(msgs))}

\* a system message whose content is only the tool block
BlockMessage(toolBlock) ==
  [Role |-> "system", Content |-> toolBlock, Name |-> "", ToolCalls |-> <<>>]

\* C1: countRequest never mutates its input: after a call the caller's
\* message sequence (number of messages, every role, content, name and tool
\* calls) is what it was before the call.
C1_InputNotMutated ==
  last.op \in RequestOps => messages = last.before

\* C2: countRequest called again on the same request returns the same
\* integer as the call before it.
C2_RepeatedCallsAgree ==
  [][(last.op \in RequestOps /\ last'.op = last.op) => last'.out = last.out]_vars

\* C3: two renderings of the same tool list by formatFunctionDefinitions
\* are the same text (tools in input order, property lines in one fixed
\* order).
C3_SchemaRenderingFixed ==
  [][(last.op = "formatFunctionDefinitions"
        /\ last'.op = "formatFunctionDefinitions") => last'.text = last.text]_vars

\* C4: two renderings of the same object by stringifyObject, in the same
\* key mode, are the same text (the fields come in one fixed key order).
C4_ValueRenderingFixed ==
  [][(last.op \in {"stringifyObject", "stringifyObject_p2"}
        /\ last'.op = last.op /\ last'.arg = last.arg) => last'.text = last.text]_vars

\* C5: a request with no tools and no tool_choice counts 3 plus, for every
\* message in order, 3 + countMessage(message), plus 13 if and only if at
\* least two messages have role tool; with zero messages it counts 3.
C5_PlainRequestTotal ==
  (last.op \in RequestOps /\ tools = <<>> /\ toolChoice = NoToolChoice) =>
    /\ last.out \in {3 + s + (IF NumberOfToolMessages(last.before) >= 2 THEN 13 ELSE 0) :
                       s \in SumOfMessages(last.op, last.before, Len(last.before))}
    /\ Len(last.before) = 0 => last.out = 3

C5_Witness ==
  /\ last.op = "CountRequestTokens"
  /\ tools = <<>>
  /\ toolChoice = NoToolChoice
  /\ last.before = <<ToolJSONMessage, AssistantMessage, ToolJSONMessage>>
  /\ last.out = 3 + (3 + 22) + (3 + 28) + (3 + 22) + 13

\* C6: the multi-tool correction is flat: what the total holds beyond the
\* priming 3, the counted messages and the tool choice is 0 for a request
\* with zero or one message of role tool and exactly 13 for a request with
\* two or more, however many they are and wherever they stand.
C6_MultiToolFlat ==
  last.op \in RequestOps =>
    \E s \in SumOfMessages(last.op, last.local, Len(last.local)) :
      last.out - (3 + s + ChoiceAdded(last.op))
        = (IF NumberOfToolMessages(last.before) >= 2 THEN 13 ELSE 0)

C6_Witness ==
  /\ last.op \in RequestOps
  /\ last.before = <<ToolJSONMessage, ToolJSONMessage, ToolJSONMessage>>
  /\ \E s \in SumOfMessages(last.op, last.local, Len(last.local)) :
       last.out = 3 + s + 13

\* C7: with a non-empty tool list and at least one system message, the
\* counted messages are the input messages with exactly the first system
\* message's content replaced by content + "\n\n" + tool block, every other
\* message as it is; as many messages are counted as the input has, and
\* the total is the total of these messages.
C7_BlockJoinsFirstSystem ==
  (last.op \in RequestOps /\ tools # <<>> /\ HasSystem(last.before)) =>
    LET first == CHOOSE i \in 1..Len(last.before) :
                   /\ last.before[i].Role = "system"
                   /\ \A j \in 1..(i - 1) : last.before[j].Role # "system"
    IN /\ Len(last.local) = Len(last.before)
       /\ \E toolBlock \in formatFunctionDefinitions(tools) :
            \A j \in 1..Len(last.before) :
              last.local[j] =
                IF j = first
                  THEN [Role |-> last.before[j].Role,
                        Content |-> last.before[j].Content \o "\n\n" \o toolBlock,
                        Name |-> last.before[j].Name,
                        ToolCalls |-> last.before[j].ToolCalls]
                  ELSE last.before[j]
       /\ last.out \in TotalsOf(last.op, last.local)

C7_Witness ==
  /\ last.op = "CountRequestTokens"
  /\ tools = <<PingTool, WeatherTool>>
  /\ last.before = <<AssistantMessage, PolicyMessage, SystemMessage>>
  /\ last.local[3] = SystemMessage
  /\ last.local[2].Content # PolicyMessage.Content

\* C8: with a non-empty tool list and no system message, the counted
\* messages are one new system message holding only the tool block followed
\* by the input messages in their order, and the total is the total of the
\* input messages plus 3 plus countMessage of the new message.
C8_BlockPrepended ==
  (last.op \in RequestOps /\ tools # <<>> /\ ~HasSystem(last.before)) =>
    \E toolBlock \in formatFunctionDefinitions(tools) :
      /\ last.local = <<BlockMessage(toolBlock)>> \o last.before
      /\ last.out \in {t + 3 + c : t \in TotalsOf(last.op, last.before),
                                   c \in countMessage(last.op, BlockMessage(toolBlock))}

C8_Witness ==
  /\ last.op = "CountRequestTokens_p2"
  /\ tools = <<WeatherTool>>
  /\ last.before = <<AssistantMessage, ToolJSONMessage>>
  /\ Len(last.local) = 3
  /\ last.local[1].Role = "system"

\* C9: if the request has a tool choice, countRequest adds countText of the
\* fragment built from the chosen function name to the total of the
\* counted messages; without a tool choice it adds nothing.
C9_ToolChoiceCounted ==
  last.op \in RequestOps =>
    \E s \in SumOfMessages(last.op, last.local, Len(last.local)) :
      last.out - (3 + s + (IF NumberOfToolMessages(last.before) >= 2 THEN 13 ELSE 0))
        = (IF toolChoice.kind = "ToolChoice"
             THEN CountTokens(ChoiceFragment(toolChoice.name)) ELSE 0)

\* 1 for a choice with tool calls, 3 more when it also has content
ToolCallDeduction(message) ==
  IF message.ToolCalls = <<>> THEN 0
  ELSE IF message.Content = "" THEN 1 ELSE 4

\* the values of the sum over the first k choices of
\* countMessage(message) - countText(role), less the tool-call deduction
\* when deducted is TRUE
RECURSIVE SumOfChoices(_, _, _, _)
SumOfChoices(op, msgs, k, deducted) ==
  IF k = 0 THEN {0}
  ELSE {s + c - CountTokens(msgs[k].Role)
          - (IF deducted THEN ToolCallDeduction(msgs[k]) ELSE 0) :
          s \in SumOfChoices(op, msgs, k - 1, deducted),
          c \in countMessage(op, msgs[k])}

\* C10 (as stated): countResponse is the sum over the choices of
\* countMessage(message) - countText(role), with no other adjustment.
C10_ResponseIsPlainSum ==
  last.op \in {"CountRespTokens", "CountResponseTokens_p2"} =>
    last.out \in SumOfChoices(last.op, last.before, Len(last.before), FALSE)

\* C10 (amended): CountResponseTokens of the second counter is the sum over
\* the choices of countMessage(message) - countText(role); CountRespTokens
\* of src/counter.go is that sum less 1 for every choice with tool calls
\* and less 3 more for every choice with tool calls and non-empty content;
\* both are 0 for a response without choices.
C10_ResponseSums ==
  /\ last.op = "CountResponseTokens_p2" =>
       last.out \in SumOfChoices(last.op, last.before, Len(last.before), FALSE)
  /\ last.op = "CountRespTokens" =>
       last.out \in SumOfChoices(last.op, last.before, Len(last.before), TRUE)
  /\ (last.op \in {"CountRespTokens", "CountResponseTokens_p2"} /\ last.before = <<>>) =>
       last.out = 0

C10_Witness ==
  /\ last.op = "CountRespTokens"
  /\ last.before = <<CallMessage, AssistantMessage, ReplyMessage>>

(***************************************************************************)
(* Properties of counting one message.                                     *)
(***************************************************************************)
MessageOps == {"CountMessageTokens", "CountMessageTokens_p2"}

\* the text is one JSON value and that value is an object
ParsesAsObject(text) ==
  LET r == ParseValue(text, 1)
  IN r.ok /\ SkipBlank(text, r.i) > Len(text) /\ r.v.t = "object"

\* the text is one JSON value
ParsesAsJSON(text) ==
  LET r == ParseValue(text, 1)
  IN r.ok /\ SkipBlank(text, r.i) > Len(text)

ObjectOf(text) == ParseValue(text, 1).v.m

\* the Value Renderer of the counter that served the call op
Rendering(op, object, quotedKeys) ==
  IF op = "CountMessageTokens"
    THEN stringifyObject(object, quotedKeys) ELSE stringifyObject_p2(object, quotedKeys)

\* the parts the counter that served op adds for the content, for the tool
\* calls and for content and tool calls being both present
contentPart(op, m) ==
  IF op = "CountMessageTokens" THEN ContentTokens(m) ELSE ContentTokens_p2(m)

callsPart(op, m) ==
  IF op = "CountMessageTokens"
    THEN ToolCallsTokens(m.ToolCalls) ELSE {ToolCallsTokens_p2(m.ToolCalls)}

bothPart(op, m) == IF op = "CountMessageTokens" THEN BothPresent(m) ELSE 0

namePart(m) == IF m.Name # "" THEN CountTokens(m.Name) + 1 ELSE 0

\* what is left of the result out for the content of m, once the role, the
\* tool calls, the correction and the name are taken off
ContentShare(op, m, out) ==
  {out - CountTokens(m.Role) - t - bothPart(op, m) - namePart(m) : t \in callsPart(op, m)}

\* what is left of the result out for the tool calls of m
CallsShare(op, m, out) ==
  {out - CountTokens(m.Role) - c - bothPart(op, m) - namePart(m) : c \in contentPart(op, m)}

\* what is left of the result out once role, content, tool calls and name
\* are taken off
CorrectionShare(op, m, out) ==
  {out - CountTokens(m.Role) - c - t - namePart(m) :
     c \in contentPart(op, m), t \in callsPart(op, m)}

\* C12: for a message of role tool whose content does not parse as a JSON
\* object (plain text, malformed JSON, an array, a scalar, null) the content
\* contributes exactly countText(content).
C12_UnparsedToolContentRaw ==
  (last.op \in MessageOps /\ last.arg.Role = "tool"
     /\ ~ParsesAsObject(last.arg.Content))
    => CountTokens(last.arg.Content) \in ContentShare(last.op, last.arg, last.out)

RECURSIVE ExpectedCalls(_, _, _)
ExpectedCalls(op, tcs, k) ==
  IF k = 0 THEN {0}
  ELSE LET tc == tcs[k]
           fixed == 4 + CountTokens(tc.Type) + 2 * CountTokens(tc.Function.Name)
           args == IF ParsesAsObject(tc.Function.Arguments)
                     THEN {CountTokens(rendered) :
                             rendered \in Rendering(op, ObjectOf(tc.Function.Arguments), FALSE)}
                     ELSE {0}
       IN {s + fixed + a : s \in ExpectedCalls(op, tcs, k - 1), a \in args}

AllWellFormed(tcs) ==
  \A k \in 1..Len(tcs) : ParsesAsObject(tcs[k].Function.Arguments)

SomeMalformed(tcs) ==
  /\ \E k \in 1..Len(tcs) : ~ParsesAsJSON(tcs[k].Function.Arguments)
  /\ \A k \in 1..Len(tcs) : \/ ~ParsesAsJSON(tcs[k].Function.Arguments)
                            \/ ParsesAsObject(tcs[k].Function.Arguments)

\* C14: every tool call with well-formed JSON-object arguments contributes
\* 4 + countText(kind) + 2 * countText(function name) + countText(unquoted-key
\* rendering of the arguments), and the tool calls of a message are summed.
C14_ToolCallContribution ==
  (last.op \in MessageOps /\ Len(last.arg.ToolCalls) > 0
     /\ AllWellFormed(last.arg.ToolCalls))
    => \E s \in ExpectedCalls(last.op, last.arg.ToolCalls, Len(last.arg.ToolCalls)) :
         s \in CallsShare(last.op, last.arg, last.out)

\* C15: a tool call whose arguments fail JSON parsing contributes its
\* overhead and name tokens and nothing for the arguments, and the other
\* tool calls of the message and the name and correction terms are counted
\* in full.
C15_MalformedArgumentsSkipped ==
  (last.op \in MessageOps /\ SomeMalformed(last.arg.ToolCalls))
    => \E s \in ExpectedCalls(last.op, last.arg.ToolCalls, Len(last.arg.ToolCalls)) :
         s \in CallsShare(last.op, last.arg, last.out)

\* C16: the correction is exactly 4, once per message, if and only if the
\* message has at least one tool call and non-empty content; otherwise 0.
C16_BothPresentCorrection ==
  last.op \in MessageOps =>
    CorrectionShare(last.op, last.arg, last.out)
      = {IF Len(last.arg.ToolCalls) > 0 /\ last.arg.Content # "" THEN 4 ELSE 0}

\* C17: a non-empty name raises the count of a message by exactly
\* countText(name) + 1 over the count of the same message with an empty
\* name, whatever the role; an empty name adds nothing.
C17_NameAddsItsTokensPlusOne ==
  /\ [](last.op \in MessageOps /\ last.arg.Name = ""
          => \E c \in contentPart(last.op, last.arg), t \in callsPart(last.op, last.arg) :
               last.out = CountTokens(last.arg.Role) + c + t + bothPart(last.op, last.arg))
  /\ [][(/\ last.op \in MessageOps /\ last'.op = last.op
         /\ last.arg.Name = "" /\ last'.arg.Name # ""
         /\ last'.arg = [last.arg EXCEPT !.Name = last'.arg.Name])
          => last'.out = last.out + CountTokens(last'.arg.Name) + 1]_vars

\* C17 witness: the tool message "It is sunny." was counted without a name
\* and then, named bob, as 1 + 6 + (1 + 1).
C17_Witness ==
  /\ calls = 2
  /\ last.op \in MessageOps
  /\ last.arg = [Role |-> "tool", Content |-> "It is sunny.", Name |-> "bob",
                 ToolCalls |-> <<>>]
  /\ last.out \in {1 + 6 + 2, 1 + 13 + 2}

\* C18: appending a tool call to a message never lowers its count, also
\* when the call's arguments are malformed and when the message already has
\* content or other tool calls.
C18_ToolCallMonotone ==
  [][(/\ last.op \in MessageOps /\ last'.op = last.op
      /\ Len(last'.arg.ToolCalls) = Len(last.arg.ToolCalls) + 1
      /\ last'.arg = [last.arg EXCEPT !.ToolCalls =
                        Append(@, last'.arg.ToolCalls[Len(last'.arg.ToolCalls)])])
       => last'.out >= last.out]_vars

\* C18 witness: an assistant message with content and one tool call was
\* counted, then counted again with a malformed tool call appended, as
\* 1 + 6 + 22 + 7 + 4 by CountMessageTokens.
C18_Witness ==
  /\ calls = 2
  /\ last.op = "CountMessageTokens"
  /\ last.arg.Role = "assistant"
  /\ last.arg.Content = "It is sunny."
  /\ last.arg.ToolCalls = <<WeatherCall, BrokenCall>>
  /\ last.out = 1 + 6 + 22 + 7 + 4

(***************************************************************************)
(* Properties of the tool block.                                           *)
(***************************************************************************)
\* the entry of one tool, every line closed by a newline: the description
\* line if there is a description, then the three-part form around the
\* property list if the schema has a property, else the one-line form
ExpectedEntry(tool) ==
  LET name == tool.Function.Name
      described == IF tool.Function.Description # ""
                     THEN "// " \o tool.Function.Description \o "\n" ELSE ""
      schema == IF ParsesAsObject(tool.Function.Parameters)
                  THEN ObjectOf(tool.Function.Parameters) ELSE EmptyMap
      hasProperty == /\ "properties" \in DOMAIN schema
                     /\ schema["properties"].t = "object"
                     /\ DOMAIN schema["properties"].m # {}
  IN IF hasProperty
       THEN {described \o "type " \o name \o " = (_: {\n" \o list \o "\n}) => any;\n" :
               list \in formatObjectProperties(schema, 0)}
       ELSE {described \o "type " \o name \o " = () => any;\n"}

\* the entries of the tools ts[1..k], in input order
RECURSIVE ExpectedEntries(_, _)
ExpectedEntries(ts, k) ==
  IF k = 0 THEN {""}
  ELSE {es \o entry : es \in ExpectedEntries(ts, k - 1), entry \in ExpectedEntry(ts[k])}

ExpectedBlocks(ts) ==
  {"# Tools\n## functions\nnamespace functions {\n" \o es \o "} // namespace functions" :
     es \in ExpectedEntries(ts, Len(ts))}

\* C11: CountToolTokens returns countText(rendered tool block) + 3 for every
\* tool list, the block being the text of the Schema Renderer for the list.
C11_ToolTokensIsBlockPlus3 ==
  last.op = "CountToolTokens"
    => /\ last.out \in {CountTokens(block) + 3 : block \in ExpectedBlocks(tools)}
       /\ last.out \in {CountTokens(block) + 3 : block \in formatFunctionDefinitions(tools)}

\* C11 witness: the list of now (nil parameters) and ping was counted as
\* the 63 tokens of its block plus 3.
C11_Witness ==
  /\ last.op = "CountToolTokens"
  /\ tools = <<BareTool, PingTool>>
  /\ last.out = 63 + 3

\* C20: formatFunctionDefinitions returns the three header lines, per tool in
\* input order the optional description line and either the three-part form
\* with the property list or the one-line form, then the closing line, joined
\* by single newlines with no trailing newline.
C20_BlockLayout ==
  last.op = "formatFunctionDefinitions" => last.text \in ExpectedBlocks(tools)

\* C20 witness: the block of ping (no description, no property) followed by
\* get_weather (description, two properties) was rendered.
C20_Witness ==
  /\ last.op = "formatFunctionDefinitions"
  /\ tools = <<PingTool, WeatherTool>>
  /\ last.text = "# Tools\n## functions\nnamespace functions {\ntype ping = () => any;\n// Get the weather.\ntype get_weather = (_: {\n// The city\nlocation:string,\nunit?:\"c\" | \"f\",\n}) => any;\n} // namespace functions"

(***************************************************************************)
(* Totality.                                                               *)
(***************************************************************************)
\* C19: every counting operation returns an integer and never panics, for
\* any input: a tool entry with no function definition, a tool with absent or
\* non-object parameters, schema nodes with unknown type or missing
\* properties, empty message lists, malformed tool-call arguments.
C19_NeverPanics ==
  last.op # "none" => last.text # "panic"

(***************************************************************************)
(* Properties of the schema renderer.                                      *)
(***************************************************************************)
\* the property list of the node, its properties visited in the order ord
\* from ord[k] on, every line prefixed by the indent and closed by a newline
RECURSIVE ExpectedList(_, _, _, _)
ExpectedList(node, ord, k, indent) ==
  IF k > Len(ord) THEN {""}
  ELSE LET key == ord[k]
           property == node["properties"].m[key].m
           described == IF "description" \in DOMAIN property
                           /\ property["description"].t = "string"
                           /\ property["description"].s # ""
                          THEN Spaces(indent) \o "// " \o property["description"].s \o "\n"
                          ELSE ""
           listed == /\ "required" \in DOMAIN node
                     /\ node["required"].t = "array"
                     /\ \E j \in 1..Len(node["required"].a) :
                          node["required"].a[j] = JStr(key)
           suffix == IF listed THEN "" ELSE "?"
       IN {described \o Spaces(indent) \o key \o suffix \o ":" \o type \o ",\n" \o rest :
             type \in formatType(property, indent),
             rest \in ExpectedList(node, ord, k + 1, indent)}

HasProperties(node) ==
  /\ "properties" \in DOMAIN node
  /\ node["properties"].t = "object"
  /\ DOMAIN node["properties"].m # {}

\* the property lists the node can render to, lines joined by newlines
ExpectedLists(node, indent) ==
  {list : list \in UNION {ExpectedList(node, ord, 1, indent) :
                            ord \in Orders(node["properties"].m)}}

\* C21: each property yields one line <key><suffix>:<type>, preceded by a
\* // <description> line exactly when its description is non-empty; the
\* suffix is empty iff the key is in the node's required array, else ?; every
\* emitted line is prefixed with indent spaces.
C21_PropertyLines ==
  last.op = "formatObjectProperties" =>
    LET node == UnmarshalMap(last.arg[1]).m
    IN IF HasProperties(node)
         THEN last.text \o "\n" \in ExpectedLists(node, last.arg[2])
         ELSE last.text = ""

\* C21 witness: the node with the described, required location and the
\* optional unit was rendered at indent 2.
C21_Witness ==
  /\ last.op = "formatObjectProperties"
  /\ last.arg[2] = 2
  /\ last.text = "  // The city\n  location:string,\n  unit?:\"c\" | \"f\","

\* C22: a property of type object with at least one sub-property is rendered
\* as "{\n" + the property list of that nested node at indent + 2 + "\n}";
\* an object without properties is rendered as "{}".
C22_NestedObject ==
  last.op = "formatType" =>
    LET node == UnmarshalMap(last.arg[1]).m
    IN ("type" \in DOMAIN node /\ node["type"] = JStr("object")) =>
         IF HasProperties(node)
           THEN \E list \in ExpectedLists(node, last.arg[2] + 2) :
                  last.text \o "\n" = "{\n" \o list \o "}\n"
           ELSE last.text = "{}"

\* the type text of a node that is no object, built by the kind of node
RECURSIVE ExpectedType(_)
RECURSIVE Union(_, _, _)
Union(literals, k, quoted) ==
  LET v == literals[k]
      bare == IF v.t = "string" THEN v.s ELSE NumText(v.n)
      one == IF quoted THEN "\"" \o bare \o "\"" ELSE bare
  IN IF k = Len(literals) THEN one ELSE one \o " | " \o Union(literals, k + 1, quoted)

ExpectedType(node) ==
  LET type == IF "type" \in DOMAIN node /\ node["type"].t = "string"
                THEN node["type"].s ELSE ""
      enum == IF "enum" \in DOMAIN node /\ node["enum"].t = "array"
                THEN node["enum"].a ELSE <<>>
  IN IF type = "string"
       THEN IF Len(enum) > 0 THEN Union(enum, 1, TRUE) ELSE "string"
     ELSE IF type \in {"integer", "number"}
       THEN IF Len(enum) > 0 THEN Union(enum, 1, FALSE) ELSE "number"
     ELSE IF type = "boolean" THEN "boolean"
     ELSE IF type = "null" THEN "null"
     ELSE IF type = "array"
       THEN IF "items" \in DOMAIN node /\ node["items"].t = "object"
              THEN ExpectedType(node["items"].m) \o "[]" ELSE "any[]"
     ELSE ""

\* C23: formatType maps every non-object node to its type text (string and
\* number enums, string, number, boolean, null, arrays of the item type,
\* any[] without items), a missing or unrecognised type to the empty string;
\* the property line of such a node is still emitted and the rest of the
\* block is still rendered.
C23_TypeTexts ==
  /\ last.op = "formatType" =>
       LET node == UnmarshalMap(last.arg[1]).m
       IN ~("type" \in DOMAIN node /\ node["type"] = JStr("object"))
            => last.text = ExpectedType(node)
  /\ (last.op = "formatFunctionDefinitions" /\ tools = <<MysteryTool, PingTool>>)
       => last.text = "# Tools\n## functions\nnamespace functions {\ntype odd = (_: {\na?:,\n}) => any;\ntype ping = () => any;\n} // namespace functions"

\* C23 witness: an array of arrays of numbers was rendered.
C23_Witness ==
  /\ last.op = "formatType"
  /\ last.arg[1] = "{\"type\":\"array\",\"items\":{\"type\":\"array\",\"items\":{\"type\":\"number\"}}}"
  /\ last.text = "number[][]"

(***************************************************************************)
(* Properties of the value renderer.                                       *)
(***************************************************************************)
StringifyOps == {"stringifyObject", "stringifyObject_p2"}

ValueOps == {"formatValue", "formatValue_p2"}

\* the texts the renderer that served op gives a value and a field
valueTexts(op, v, quotedKeys) ==
  IF op \in {"stringifyObject", "formatValue"}
    THEN {formatValue(v)} ELSE formatValue_p2(v, quotedKeys)

fieldTexts(op, key, v, quotedKeys) ==
  IF op \in {"stringifyObject", "formatValue"}
    THEN {formatField(key, v, quotedKeys)} ELSE formatField_p2(key, v, quotedKeys)

objectTexts(op, object, quotedKeys) ==
  IF op \in {"stringifyObject", "formatValue"}
    THEN stringifyObject(object, quotedKeys) ELSE stringifyObject_p2(object, quotedKeys)

\* the object a call rendered: the argument of stringifyObject, or the
\* argument of formatValue when it is an object
RenderedIsObject ==
  /\ last.op \in StringifyOps \cup ValueOps
  /\ ValueOf(last.arg[1]).t = "object"

RenderedObject == ValueOf(last.arg[1]).m

\* C24: an object with exactly one key is rendered as "{" + the single
\* rendered field + "}" + newline, with no trailing comma, in both modes and
\* at every nesting depth.
C24_SingleKeyShortcut ==
  (RenderedIsObject /\ Cardinality(DOMAIN RenderedObject) = 1)
    => \E key \in DOMAIN RenderedObject :
         last.text \in {"{" \o field \o "}\n" :
                          field \in fieldTexts(last.op, key, RenderedObject[key], last.arg[2])}

\* the fields of the keys ord[k..], each <key>:<value> or "<key>":<value>,
\* joined by ","
RECURSIVE ExpectedFields(_, _, _, _, _)
ExpectedFields(op, object, ord, k, quotedKeys) ==
  LET key == ord[k]
      name == IF quotedKeys THEN "\"" \o key \o "\"" ELSE key
      fields == {name \o ":" \o v : v \in valueTexts(op, object[key], quotedKeys)}
  IN IF k = Len(ord) THEN fields
     ELSE {f \o "," \o rest : f \in fields,
                              rest \in ExpectedFields(op, object, ord, k + 1, quotedKeys)}

\* C25: each field is "<key>":<value> in quoted-key mode and <key>:<value>
\* in unquoted-key mode, with no space after the colon; an object with two or
\* more keys is its fields joined by "," with no surrounding spaces, wrapped
\* in { and }.
C25_FieldsAndJoin ==
  (last.op \in StringifyOps /\ Cardinality(DOMAIN RenderedObject) >= 1)
    => \E ord \in Orders(RenderedObject) :
         \E fields \in ExpectedFields(last.op, RenderedObject, ord, 1, last.arg[2]) :
           IF Len(ord) >= 2
             THEN last.text = "{" \o fields \o "}"
             ELSE last.text \in {"{" \o fields \o "}", "{" \o fields \o "}\n"}

\* the text with a backslash before every double quote
RECURSIVE Escaped(_)
Escaped(txt) ==
  IF Len(txt) = 0 THEN ""
  ELSE (IF SubSeq(txt, 1, 1) = "\"" THEN "\\\"" ELSE SubSeq(txt, 1, 1))
         \o Escaped(SubSeq(txt, 2, Len(txt)))

\* the rendering of a value by kind; a nested object is rendered by the
\* object renderer of the call, in the same mode
RECURSIVE ExpectedValue(_, _, _)
RECURSIVE ExpectedElements(_, _, _, _)
ExpectedElements(op, a, k, quotedKeys) ==
  IF k = Len(a) THEN ExpectedValue(op, a[k], quotedKeys)
  ELSE {e \o "," \o rest : e \in ExpectedValue(op, a[k], quotedKeys),
                           rest \in ExpectedElements(op, a, k + 1, quotedKeys)}

ExpectedValue(op, v, quotedKeys) ==
  IF v.t = "string" THEN {"\"" \o Escaped(v.s) \o "\""}
  ELSE IF v.t = "number" THEN {NumText(v.n)}
  ELSE IF v.t = "bool" THEN {IF v.b THEN "true" ELSE "false"}
  ELSE IF v.t = "null" THEN {"null"}
  ELSE IF v.t = "array"
    THEN IF Len(v.a) = 0 THEN {"[]"}
         ELSE {"[" \o es \o "]" : es \in ExpectedElements(op, v.a, 1, quotedKeys)}
  ELSE objectTexts(op, v.m, quotedKeys)

\* C26: every JSON value is rendered by kind: a string double-quoted with
\* its quotes escaped, a number or boolean as its bare literal, null as null,
\* an array as [ elements joined by "," ], a nested object in the mode of
\* its parent; no kind is replaced by an empty string.
C26_ValueKinds ==
  last.op \in ValueOps
    => last.text \in ExpectedValue(last.op, ValueOf(last.arg[1]), last.arg[2])

(***************************************************************************)
(* Further properties of the counters.                                     *)
(***************************************************************************)
\* C27: CountRequestTokens leaves the caller's messages untouched whenever
\* the tool list is empty or no message has role system; without a system
\* message the prepended one lives only in the sequence local to the call.
C27_CallerUntouchedWithoutSystem ==
  (last.op \in RequestOps /\ (tools = <<>> \/ ~HasSystem(last.before)))
    => /\ messages = last.before
       /\ tools # <<>> =>
            /\ Len(last.local) = Len(last.before) + 1
            /\ last.local[1].Role = "system"
            /\ SubSeq(last.local, 2, Len(last.local)) = last.before

\* C27 witness: a request with tools and two messages, none of role system,
\* was counted over three messages and the caller still holds the two.
C27_Witness ==
  /\ last.op \in RequestOps
  /\ tools = <<PingTool, WeatherTool>>
  /\ last.before = <<AssistantMessage, ToolJSONMessage>>
  /\ messages = <<AssistantMessage, ToolJSONMessage>>
  /\ Len(last.local) = 3

ResponseOps == {"CountRespTokens", "CountResponseTokens_p2"}

\* C28: the response count is never negative, for CountRespTokens with its
\* deductions and for CountResponseTokens.
C28_ResponseNotNegative ==
  last.op \in ResponseOps => last.out >= 0

\* C28 witness: a response whose choices have neither content nor tool calls
\* was counted as 0.
C28_Witness ==
  /\ last.op \in ResponseOps
  /\ last.before = <<EmptyReply, EmptyReply>>
  /\ last.out = 0

\* the sums of the contributions of the tool calls tcs[1..k] in
\* src/counter.go: 4 + countText(type) for a call whose type is not function,
\* the contribution of a function call otherwise
RECURSIVE ExpectedCallsByType(_, _)
ExpectedCallsByType(tcs, k) ==
  IF k = 0 THEN {0}
  ELSE IF tcs[k].Type # "function"
    THEN {s + 4 + CountTokens(tcs[k].Type) : s \in ExpectedCallsByType(tcs, k - 1)}
    ELSE {s + c : s \in ExpectedCallsByType(tcs, k - 1),
                  c \in ExpectedCalls("CountMessageTokens", <<tcs[k]>>, 1)}

\* C29: in CountMessageTokens of src/counter.go a tool call whose type is
\* not function contributes exactly 4 + countText(type); its name and its
\* arguments are not counted, whatever they contain.
C29_OtherTypeCalls ==
  (/\ last.op = "CountMessageTokens"
   /\ \E k \in 1..Len(last.arg.ToolCalls) : last.arg.ToolCalls[k].Type # "function")
    => \E s \in ExpectedCallsByType(last.arg.ToolCalls, Len(last.arg.ToolCalls)) :
         s \in CallsShare(last.op, last.arg, last.out)

\* C29 witness: the message with a retrieval call, a function call and a
\* code_interpreter call with malformed arguments was counted.
C29_Witness ==
  /\ last.op = "CountMessageTokens"
  /\ last.arg = OtherCallsMessage
  /\ last.text # "panic"
  /\ last.out = CountTokens("assistant") + (4 + CountTokens("retrieval")) + 22
                  + (4 + CountTokens("code_interpreter"))

\* C30: a tool_choice value that is no ToolChoice struct value (a string
\* such as auto, a pointer to a ToolChoice) contributes 0 tokens:
\* CountRequestTokens returns the total of the same request without
\* tool_choice.
C30_OtherToolChoiceIsFree ==
  (last.op = "CountRequestTokens_p2" /\ toolChoice.kind \notin {"nil", "ToolChoice"})
    => last.out \in {3 + s + (IF NumberOfToolMessages(last.local) >= 2 THEN 13 ELSE 0) :
                       s \in SumOfMessages(last.op, last.local, Len(last.local))}

\* C30 witness: a request with one message and a pointer to a ToolChoice
\* was counted by the second counter.
C30_Witness ==
  /\ last.op = "CountRequestTokens_p2"
  /\ toolChoice = [kind |-> "*ToolChoice", name |-> "get_weather"]
  /\ tools = <<>>
  /\ last.before = <<ToolJSONMessage>>
  /\ last.out = 3 + (3 + 16)

====
